---- MODULE Spec2Model ----
(***************************************************************************)
(* A model of the voice chat application: the POST /api/chat handler of    *)
(* src/app/api/chat/route.ts (the orchestrator) and the recorder/session   *)
(* controller of src/app/page.tsx (the client).                            *)
(*                                                                         *)
(* A JavaScript string is a sequence of chunks; a chunk is either one      *)
(* white-space character or a run of other characters.  A value whose type *)
(* is not fixed by the code (a field of a JSON body) is a tagged record    *)
(* [t, v] with t the result of typeof (and "null" for null).               *)
(***************************************************************************)
EXTENDS Integers, Sequences, FiniteSets, TLC

\* ------------------------------------------------------------------ bounds
\* calls of startRecording in one session
MaxStarts == 2
\* turns of the conversation before a session that continues
MaxPriorTurns == 5

\* ------------------------------------------------------------ JS strings
WhiteSpace == {" ", "\n"}

RECURSIVE TrimStart(_)
TrimStart(s) ==
  IF s # <<>> /\ Head(s) \in WhiteSpace THEN TrimStart(Tail(s)) ELSE s

RECURSIVE TrimEnd(_)
TrimEnd(s) ==
  IF s # <<>> /\ s[Len(s)] \in WhiteSpace
    THEN TrimEnd(SubSeq(s, 1, Len(s) - 1)) ELSE s

\* String.prototype.trim
Trim(s) == TrimEnd(TrimStart(s))

\* !s for a string s
Falsy(s) == s = <<>>

\* a || b for strings
OrElse(a, b) == IF Falsy(a) THEN b ELSE a

\* tagged JS values
Null == [t |-> "null", v |-> <<>>]
Undefined == [t |-> "undefined", v |-> <<>>]
Str(s) == [t |-> "string", v |-> s]
Truthy(x) == x.t = "string" /\ ~Falsy(x.v)

\* --------------------------------------------- route.ts: fixed strings
TRANSCRIPTION_FAILED == <<"[Audio could not be transcribed]">>
MSG_NOT_UNDERSTOOD == <<"Sorry, I couldn't understand the audio. Please try again.">>
MSG_NOT_CAUGHT == <<"Sorry, I didn't catch that. Could you please speak clearly?">>
MSG_NO_RESPONSE == <<"Sorry, I could not generate a response at this moment.">>
MSG_LLM_ERROR == <<"Sorry, I encountered an error while processing your request.">>
SYSTEM_PROMPT ==
  <<"You are a helpful and concise voice assistant. Respond clearly and naturally.">>
VOICE_ERROR == "alloy"
VOICE_REPLY == "nova"

\* ------------------------------------------------ route.ts: the inputs
\* The history form field: absent (null), the empty string, or a text that
\* JSON.parse rejects ("malformed"), parses to an array ("array") or parses
\* to a value that cannot be spread into an array literal, such as null, a
\* number or an object ("nonIterable").
HistoryArrays ==
  { <<>>,
    <<[role |-> "user", content |-> <<"hi">>]>>,
    <<[role |-> "user", content |-> <<"hi">>],
      [role |-> "assistant", content |-> <<"hello", " ", "there">>]>> }

HistoryFields ==
  { [kind |-> k, val |-> <<>>] : k \in {"absent", "empty", "malformed", "nonIterable"} }
  \cup { [kind |-> "array", val |-> a] : a \in HistoryArrays }

Requests ==
  [formOk : BOOLEAN, audio : BOOLEAN, history : HistoryFields]

\* texts the transcription capability may return
TranscriptionTexts ==
  { <<>>, <<" ">>, <<" ", "\n">>, <<"hello">>, <<" ", "hello", " ">>,
    TRANSCRIPTION_FAILED }

\* choices[0]?.message?.content of a chat completion
ChatContents ==
  { Null, Undefined, Str(<<>>), Str(<<" ">>), Str(<<"reply">>),
    Str(<<" ", "reply", "\n">>) }

\* base64 of the synthesized audio (empty when the audio has no bytes)
AudioStrings == { <<>>, <<"bXAz">> }

VARIABLES
  \* ---- server: one request through POST
  request, pc, conversationHistory, userTranscript, errorMessage, messages,
  llmTextResponse, audioBase64, response,
  sttCalls, chatCalls, ttsCalls, sttResult, chatResult, ttsResult,
  \* ---- client: the HomePage component
  mounted,            \* the component is mounted
  isRecording, isLoading, conversation, status,        \* React state
  mediaRecorderRef, audioChunksRef, mediaStreamRef,    \* refs (0 is null)
  calls,              \* the calls of startRecording, each with its closure,
                      \* its capture stream and its MediaRecorder
  starts,             \* the number of calls of startRecording so far
  player              \* the <audio> element

svars == <<request, pc, conversationHistory, userTranscript, errorMessage,
           messages, llmTextResponse, audioBase64, response,
           sttCalls, chatCalls, ttsCalls, sttResult, chatResult, ttsResult>>

cvars == <<mounted, isRecording, isLoading, conversation, status,
           mediaRecorderRef, audioChunksRef, mediaStreamRef, calls, starts,
           player>>

vars == <<svars, cvars>>

\* ------------------------------------------------- route.ts: responses
NoResponse == [status |-> 0, body |-> <<>>]

\* lines 29: NextResponse.json({ error }, { status: 400 })
BadRequest ==
  [status |-> 400, body |-> [error |-> Str(<<"No audio file provided">>)]]

\* lines 161-166: the outer catch
Unhandled(message) ==
  [status |-> 500,
   body |-> [error |-> Str(<<"Failed to process audio chat">>),
             details |-> Str(OrElse(message, <<"Unknown server error">>))]]

\* mutant: the clarification returned is a hard-coded one, not the one synthesized
ClarificationResult_FixedMessage(transcript, msg, audio) ==
  [status |-> 200,
   body |-> [userTranscript |-> Str(OrElse(transcript, <<>>)),
             llmTextResponse |-> Str(MSG_NOT_CAUGHT),
             audioBase64 |-> audio]]

\* lines 78-82, 87-91: the clarification result
ClarificationResult(transcript, msg, audio) ==
  [status |-> 200,
   body |-> [userTranscript |-> Str(OrElse(transcript, <<>>)),
             llmTextResponse |-> Str(msg),
             audioBase64 |-> audio]]

\* lines 155-159: the normal result
Result(transcript, text, audio) ==
  [status |-> 200,
   body |-> [userTranscript |-> Str(transcript),
             llmTextResponse |-> Str(text),
             audioBase64 |-> audio]]

\* ------------------------------------------------- route.ts: decisions
\* mutant: a parse failure is swallowed and the history taken as empty
ParseHistory_Lenient(h) ==
  CASE h.kind \in {"absent", "empty", "malformed"} ->
         [threw |-> FALSE, val |-> <<>>, iterable |-> TRUE]
    [] h.kind = "array" -> [threw |-> FALSE, val |-> h.val, iterable |-> TRUE]
    [] h.kind = "nonIterable" -> [threw |-> FALSE, val |-> <<>>, iterable |-> FALSE]

\* line 24: historyString ? JSON.parse(historyString) : []
ParseHistory(h) ==
  CASE h.kind \in {"absent", "empty"} -> [threw |-> FALSE, val |-> <<>>, iterable |-> TRUE]
    [] h.kind = "malformed" -> [threw |-> TRUE, val |-> <<>>, iterable |-> FALSE]
    [] h.kind = "array" -> [threw |-> FALSE, val |-> h.val, iterable |-> TRUE]
    [] h.kind = "nonIterable" -> [threw |-> FALSE, val |-> <<>>, iterable |-> FALSE]

\* mutant: the white-space test is left out
NeedsClarification_NoTrim(t) ==
  Falsy(t) \/ t = TRANSCRIPTION_FAILED

\* line 59
NeedsClarification(t) ==
  Falsy(t) \/ Len(Trim(t)) < 1 \/ t = TRANSCRIPTION_FAILED

\* mutant: the two clarifications are exchanged
ClarificationMessage_Swapped(t) ==
  IF t = TRANSCRIPTION_FAILED THEN MSG_NOT_CAUGHT ELSE MSG_NOT_UNDERSTOOD

\* lines 60-63
ClarificationMessage(t) ==
  IF t = TRANSCRIPTION_FAILED THEN MSG_NOT_UNDERSTOOD ELSE MSG_NOT_CAUGHT

\* mutant: the new transcript is put before the history
BuildMessages_TranscriptFirst(history, t) ==
  <<[role |-> "system", content |-> SYSTEM_PROMPT]>>
    \o <<[role |-> "user", content |-> t]>> \o history

\* lines 99-103
BuildMessages(history, t) ==
  <<[role |-> "system", content |-> SYSTEM_PROMPT]>>
    \o history \o <<[role |-> "user", content |-> t]>>

\* mutant: an empty content is not replaced
ReplyText_NoSubstitute(content) ==
  IF content.t = "string" THEN Trim(content.v) ELSE <<>>

\* lines 113-116: content?.trim() || '' and the empty-content substitute
ReplyText(content) ==
  LET trimmed == IF content.t = "string" THEN Trim(content.v) ELSE <<>>
  IN  OrElse(trimmed, MSG_NO_RESPONSE)

\* mutant: the catch leaves the reply text empty
LlmErrorText_Empty == <<>>

\* line 122
LlmErrorText == MSG_LLM_ERROR

\* line 54
SttErrorTranscript == TRANSCRIPTION_FAILED

\* -------------------------------------------------- route.ts: the handler
ServerStart ==
  /\ pc = "start"
  /\ conversationHistory = ParseHistory([kind |-> "absent", val |-> <<>>])
  /\ userTranscript = <<>>
  /\ errorMessage = <<>>
  /\ messages = <<>>
  /\ llmTextResponse = <<>>
  /\ audioBase64 = Null
  /\ response = NoResponse
  /\ sttCalls = 0
  /\ chatCalls = <<>>
  /\ ttsCalls = <<>>
  /\ sttResult = "none"
  /\ chatResult = "none"
  /\ ttsResult = "none"

\* the outer catch (lines 161-166) ends the request
Throw(message) ==
  /\ response' = Unhandled(message)
  /\ pc' = "done"

\* mutant: the audio payload is not validated
Receive_NoAudioCheck ==
  /\ pc = "start"
  /\ LET parsed == ParseHistory(request.history) IN
       IF ~request.formOk
         THEN /\ Throw(<<"Failed to parse body as FormData.">>)
              /\ UNCHANGED <<conversationHistory, sttCalls>>
       ELSE IF parsed.threw
         THEN /\ Throw(<<"Unexpected token in JSON">>)
              /\ UNCHANGED <<conversationHistory, sttCalls>>
       ELSE /\ conversationHistory' = parsed
            /\ sttCalls' = sttCalls + 1
            /\ pc' = "stt"
            /\ UNCHANGED response
  /\ UNCHANGED <<request, userTranscript, errorMessage, messages,
                 llmTextResponse, audioBase64, chatCalls, ttsCalls,
                 sttResult, chatResult, ttsResult>>
  /\ UNCHANGED cvars

\* lines 19-48: read the form, parse the history, validate the audio and
\* start the transcription
Receive ==
  /\ pc = "start"
  /\ LET parsed == ParseHistory(request.history) IN
       IF ~request.formOk
         THEN /\ Throw(<<"Failed to parse body as FormData.">>)
              /\ UNCHANGED <<conversationHistory, sttCalls>>
       ELSE IF parsed.threw
         THEN /\ Throw(<<"Unexpected token in JSON">>)
              /\ UNCHANGED <<conversationHistory, sttCalls>>
       ELSE IF ~request.audio
         THEN /\ response' = BadRequest
              /\ pc' = "done"
              /\ UNCHANGED <<conversationHistory, sttCalls>>
       ELSE /\ conversationHistory' = parsed
            /\ sttCalls' = sttCalls + 1
            /\ pc' = "stt"
            /\ UNCHANGED response
  /\ UNCHANGED <<request, userTranscript, errorMessage, messages,
                 llmTextResponse, audioBase64, chatCalls, ttsCalls,
                 sttResult, chatResult, ttsResult>>
  /\ UNCHANGED cvars

\* lines 58-73 and 96-111: what follows the transcription step, up to the
\* next capability call
AfterTranscription(t) ==
  IF NeedsClarification(t)
    THEN /\ errorMessage' = ClarificationMessage(t)
         /\ ttsCalls' = Append(ttsCalls,
               [voice |-> VOICE_ERROR, input |-> ClarificationMessage(t)])
         /\ pc' = "errTts"
         /\ UNCHANGED <<messages, chatCalls, response>>
  ELSE IF ~conversationHistory.iterable
    THEN /\ Throw(<<"conversationHistory is not iterable">>)
         /\ UNCHANGED <<errorMessage, ttsCalls, messages, chatCalls>>
  ELSE /\ messages' = BuildMessages(conversationHistory.val, t)
       /\ chatCalls' = Append(chatCalls, BuildMessages(conversationHistory.val, t))
       /\ pc' = "chat"
       /\ UNCHANGED <<errorMessage, ttsCalls, response>>

\* lines 49-50: the transcription returns
SttResolve ==
  /\ pc = "stt"
  /\ \E text \in TranscriptionTexts :
       /\ userTranscript' = text
       /\ sttResult' = "ok"
       /\ AfterTranscription(text)
  /\ UNCHANGED <<request, conversationHistory, llmTextResponse, audioBase64,
                 sttCalls, chatResult, ttsResult>>
  /\ UNCHANGED cvars

\* mutant: a transcription failure reaches the outer catch
SttReject_Propagates ==
  /\ pc = "stt"
  /\ sttResult' = "threw"
  /\ Throw(<<"transcription failed">>)
  /\ UNCHANGED <<request, conversationHistory, userTranscript, errorMessage,
                 messages, llmTextResponse, audioBase64, sttCalls, chatCalls,
                 ttsCalls, chatResult, ttsResult>>
  /\ UNCHANGED cvars

\* lines 51-56: the transcription throws
SttReject ==
  /\ pc = "stt"
  /\ userTranscript' = SttErrorTranscript
  /\ sttResult' = "threw"
  /\ AfterTranscription(SttErrorTranscript)
  /\ UNCHANGED <<request, conversationHistory, llmTextResponse, audioBase64,
                 sttCalls, chatResult, ttsResult>>
  /\ UNCHANGED cvars

\* lines 74-82: the synthesis of the clarification returns
ErrTtsResolve ==
  /\ pc = "errTts"
  /\ \E audio \in AudioStrings :
       response' = ClarificationResult(userTranscript, errorMessage, Str(audio))
  /\ ttsResult' = "ok"
  /\ pc' = "done"
  /\ UNCHANGED <<request, conversationHistory, userTranscript, errorMessage,
                 messages, llmTextResponse, audioBase64, sttCalls, chatCalls,
                 ttsCalls, sttResult, chatResult>>
  /\ UNCHANGED cvars

\* lines 84-92: the synthesis of the clarification throws
ErrTtsReject ==
  /\ pc = "errTts"
  /\ response' = ClarificationResult(userTranscript, errorMessage, Null)
  /\ ttsResult' = "threw"
  /\ pc' = "done"
  /\ UNCHANGED <<request, conversationHistory, userTranscript, errorMessage,
                 messages, llmTextResponse, audioBase64, sttCalls, chatCalls,
                 ttsCalls, sttResult, chatResult>>
  /\ UNCHANGED cvars

\* mutant: the text of the chat step is synthesized with the voice of the
\* clarifications
AfterChat_ErrorVoice(text) ==
  IF ~Falsy(text)
    THEN /\ ttsCalls' = Append(ttsCalls, [voice |-> VOICE_ERROR, input |-> text])
         /\ pc' = "tts"
         /\ UNCHANGED response
    ELSE /\ response' = Result(userTranscript, text, Null)
         /\ pc' = "done"
         /\ UNCHANGED ttsCalls

\* lines 127-137 and 148-159: what follows the chat step
AfterChat(text) ==
  IF ~Falsy(text)
    THEN /\ ttsCalls' = Append(ttsCalls, [voice |-> VOICE_REPLY, input |-> text])
         /\ pc' = "tts"
         /\ UNCHANGED response
    ELSE /\ response' = Result(userTranscript, text, Null)
         /\ pc' = "done"
         /\ UNCHANGED ttsCalls

\* lines 112-119: the chat completion returns
ChatResolve ==
  /\ pc = "chat"
  /\ \E content \in ChatContents :
       /\ llmTextResponse' = ReplyText(content)
       /\ AfterChat(ReplyText(content))
  /\ chatResult' = "ok"
  /\ UNCHANGED <<request, conversationHistory, userTranscript, errorMessage,
                 messages, audioBase64, sttCalls, chatCalls, sttResult, ttsResult>>
  /\ UNCHANGED cvars

\* lines 120-124: the chat completion throws
ChatReject ==
  /\ pc = "chat"
  /\ llmTextResponse' = LlmErrorText
  /\ AfterChat(LlmErrorText)
  /\ chatResult' = "threw"
  /\ UNCHANGED <<request, conversationHistory, userTranscript, errorMessage,
                 messages, audioBase64, sttCalls, chatCalls, sttResult, ttsResult>>
  /\ UNCHANGED cvars

\* lines 139-142 and 155-159: the synthesis of the reply returns
TtsResolve ==
  /\ pc = "tts"
  /\ \E audio \in AudioStrings :
       /\ audioBase64' = Str(audio)
       /\ response' = Result(userTranscript, llmTextResponse, Str(audio))
  /\ ttsResult' = "ok"
  /\ pc' = "done"
  /\ UNCHANGED <<request, conversationHistory, userTranscript, errorMessage,
                 messages, llmTextResponse, sttCalls, chatCalls, ttsCalls,
                 sttResult, chatResult>>
  /\ UNCHANGED cvars

\* mutant: a failed synthesis is tried again
TtsReject_Retry ==
  /\ pc = "tts"
  /\ ttsCalls' = Append(ttsCalls, [voice |-> VOICE_REPLY, input |-> llmTextResponse])
  /\ ttsResult' = "threw"
  /\ UNCHANGED <<request, pc, conversationHistory, userTranscript, errorMessage,
                 messages, llmTextResponse, audioBase64, response, sttCalls,
                 chatCalls, sttResult, chatResult>>
  /\ UNCHANGED cvars

\* lines 143-147 and 155-159: the synthesis of the reply throws
TtsReject ==
  /\ pc = "tts"
  /\ audioBase64' = Null
  /\ response' = Result(userTranscript, llmTextResponse, Null)
  /\ ttsResult' = "threw"
  /\ pc' = "done"
  /\ UNCHANGED <<request, conversationHistory, userTranscript, errorMessage,
                 messages, llmTextResponse, sttCalls, chatCalls, ttsCalls,
                 sttResult, chatResult>>
  /\ UNCHANGED cvars

ServerStep ==
  \/ Receive
  \/ SttResolve
  \/ SttReject
  \/ ErrTtsResolve
  \/ ErrTtsReject
  \/ ChatResolve
  \/ ChatReject
  \/ TtsResolve
  \/ TtsReject


\* ================================================================ page.tsx
\* ------------------------------------------------ page.tsx: status texts
S_INITIAL == <<"Click Start Recording">>
\* (replaced before startRecording next awaits)
S_GRANTED == <<"Microphone access granted. Initializing recorder...">>
S_NO_FORMAT == <<"Error", ": No supported audio format found for recording.">>
S_RECORDING == <<"Recording... Click Stop Recording">>
S_STOPPING == <<"Stopping recording...">>
S_PROCESSING == <<"Recording stopped. Processing audio...">>
S_NO_AUDIO == <<"No audio detected. Please try recording again.">>
S_RECEIVED == <<"Received response.">>
S_PLAYING == <<"Playing", " response... Click Start Recording when ready.">>
S_REPLAY == <<"Received response. Click '", "Replay", " Audio' to listen.">>
S_TEXT_ONLY == <<"Received text response. Click Start Recording when ready.">>
S_COMPLETE == <<"Processing complete. Click Start Recording.">>
S_READY == <<"Ready. Click Start Recording.">>
\* (replaced by onstop, which runs in the task of onerror)
S_RECORDER_ERROR == <<"Error", " during recording. Please try again.">>

\* `Error: ${message}`
ErrorStatus(message) == <<"Error", ": ">> \o message

\* String.prototype.startsWith and includes, for a word that is one chunk
StartsWith(s, w) == s # <<>> /\ s[1] = w
Includes(s, w) == \E i \in 1..Len(s) : s[i] = w

\* lines 234-241: the message for a failure of getUserMedia or of start()
MicErrorMessage(name) ==
  CASE name = "NotAllowedError" ->
         <<"Microphone permission denied. Please grant permission in browser settings.">>
    [] name = "NotFoundError" ->
         <<"No microphone found. Please ensure a microphone is connected and enabled.">>
    [] OTHER -> <<"Could not access microphone.", " ", name>>

MicErrorNames == {"NotAllowedError", "NotFoundError", "AbortError"}

\* ------------------------------------------------ page.tsx: the history
HISTORY_LIMIT == 8

\* Array.prototype.slice(-n)
SliceLast(seq, n) ==
  IF Len(seq) <= n THEN seq ELSE SubSeq(seq, Len(seq) - n + 1, Len(seq))

IsChatTurn(msg) == msg.role = "You" \/ msg.role = "Assistant"

ToApiMessage(msg) ==
  [role |-> IF msg.role = "You" THEN "user" ELSE "assistant",
   content |-> msg.text]

\* mutant: the conversation is not cut to its last turns
HistoryForApi_NoSlice(conv) ==
  LET kept == SelectSeq(conv, IsChatTurn)
  IN  [i \in 1..Len(kept) |-> ToApiMessage(kept[i])]

\* lines 117-123
HistoryForApi(conv) ==
  LET kept == SelectSeq(SliceLast(conv, HISTORY_LIMIT), IsChatTurn)
  IN  [i \in 1..Len(kept) |-> ToApiMessage(kept[i])]

\* ------------------------------------------- page.tsx: the fetch outcomes
Data(u, l, a, e, d) ==
  [userTranscript |-> u, llmTextResponse |-> l, audioBase64 |-> a,
   error |-> e, details |-> d]

NoData == Data(Undefined, Undefined, Undefined, Undefined, Undefined)

\* fetch rejects (kind "reject") or resolves with a response (kind "http")
\* whose body is JSON (json) or not
Http(ok, code, statusText, json, data) ==
  [kind |-> "http", ok |-> ok, code |-> code, statusText |-> statusText,
   json |-> json, data |-> data]

NetworkError ==
  [kind |-> "reject", ok |-> FALSE, code |-> <<>>, statusText |-> <<>>,
   json |-> FALSE, data |-> NoData]

FetchOutcomes ==
  { NetworkError,
    Http(TRUE, <<"200">>, <<"OK">>, TRUE,
         Data(Str(<<"hi">>), Str(<<"ok">>), Str(<<"bXAz">>), Undefined, Undefined)),
    Http(TRUE, <<"200">>, <<"OK">>, TRUE,
         Data(Str(<<"hi">>), Str(<<"ok">>), Null, Undefined, Undefined)),
    Http(TRUE, <<"200">>, <<"OK">>, TRUE,
         Data(Str(<<>>), Str(<<>>), Null, Undefined, Undefined)),
    Http(TRUE, <<"200">>, <<"OK">>, TRUE,
         Data(Undefined, Str(<<"ok">>), Null, Undefined, Undefined)),
    Http(FALSE, <<"500">>, <<"Internal Server Error">>, TRUE,
         Data(Undefined, Undefined, Undefined,
              Str(<<"Failed to process audio chat">>), Str(<<"Unexpected token in JSON">>))),
    Http(FALSE, <<"502">>, <<"Bad Gateway">>, FALSE, NoData) }

\* lines 138-161: the Error thrown while the response is processed, if any
Thrown(o) ==
  LET base == <<"API request failed with status ">> \o o.code IN
  CASE o.kind = "reject" -> [threw |-> TRUE, message |-> <<"Failed to fetch">>]
    [] o.kind = "http" /\ ~o.ok /\ o.json ->
         [threw |-> TRUE,
          message |-> IF Truthy(o.data.error) THEN o.data.error.v
                      ELSE IF Truthy(o.data.details) THEN o.data.details.v
                      ELSE base]
    [] o.kind = "http" /\ ~o.ok /\ ~o.json ->
         [threw |-> TRUE, message |-> base \o <<": ">> \o o.statusText]
    [] o.kind = "http" /\ o.ok /\ ~o.json ->
         [threw |-> TRUE, message |-> <<"Unexpected end of JSON input">>]
    [] o.kind = "http" /\ o.ok /\ o.json
         /\ (o.data.userTranscript.t # "string"
               \/ o.data.llmTextResponse.t # "string") ->
         [threw |-> TRUE, message |-> <<"Invalid response format received from API.">>]
    [] OTHER -> [threw |-> FALSE, message |-> <<>>]

\* mutant: an empty transcript is shown as it is
NewUserMessage_NoPlaceholder(data) ==
  [role |-> "You", text |-> data.userTranscript.v, audio |-> Undefined]

\* lines 164-165
NewUserMessage(data) ==
  [role |-> "You",
   text |-> OrElse(data.userTranscript.v, <<"(No transcription)">>),
   audio |-> Undefined]

NewAssistantMessage(data) ==
  [role |-> "Assistant", text |-> data.llmTextResponse.v,
   audio |-> data.audioBase64]

\* line 195
ErrorTurn(message) ==
  [role |-> "Error", text |-> <<"Processing failed: ">> \o message,
   audio |-> Undefined]

\* mutant: the Error turn is put in front of the conversation
AfterTurn_ErrorFirst(conv, o) ==
  IF Thrown(o).threw
    THEN <<ErrorTurn(Thrown(o).message)>> \o conv
    ELSE conv \o <<NewUserMessage(o.data), NewAssistantMessage(o.data)>>

\* lines 167, 195: the conversation after the turn that outcome o ends
AfterTurn(conv, o) ==
  IF Thrown(o).threw
    THEN Append(conv, ErrorTurn(Thrown(o).message))
    ELSE conv \o <<NewUserMessage(o.data), NewAssistantMessage(o.data)>>

\* ------------------------------------------------ page.tsx: the session
\* no request was sent, or the request sent has not settled
NoOutcome ==
  [kind |-> "none", ok |-> FALSE, code |-> <<>>, statusText |-> <<>>,
   json |-> FALSE, data |-> NoData]

\* One call of startRecording: where it stands (phase), the conversation
\* and status of the render whose closure it is, whether the tracks of the
\* stream it acquired are live, the bytes its recorder delivered, the
\* history of the request it sent and how that request settled.
NoCall ==
  [phase |-> "idle", conversation |-> <<>>, status |-> <<>>, live |-> FALSE,
   bytes |-> 0, history |-> <<>>, outcome |-> NoOutcome]

Finished(call) == [NoCall EXCEPT !.phase = "done", !.live = call.live]

\* a state setter of a component: without effect once it is unmounted
SetState(current, new) == IF mounted THEN new ELSE current

\* stream.getTracks().forEach(track => track.stop()) on the stream of call s
StopTracks(cs, s) == IF s = 0 THEN cs ELSE [cs EXCEPT ![s].live = FALSE]

IdlePlayer == [state |-> "idle", auto |-> FALSE]

ClientStart ==
  /\ mounted = TRUE
  /\ isRecording = FALSE
  /\ isLoading = FALSE
  /\ conversation = <<>>
  /\ status = S_INITIAL
  /\ mediaRecorderRef = 0
  /\ audioChunksRef = <<>>
  /\ mediaStreamRef = 0
  /\ calls = [k \in 1..MaxStarts |-> NoCall]
  /\ starts = 0
  /\ player = IdlePlayer

\* lines 35-45, 308-311: a click on Start (enabled unless isRecording or
\* isLoading) runs startRecording up to the call of getUserMedia
ClickStart ==
  /\ mounted
  /\ ~(isRecording \/ isLoading)
  /\ starts < MaxStarts
  /\ starts' = starts + 1
  /\ calls' = [StopTracks(calls, mediaStreamRef) EXCEPT
                 ![starts + 1] = [NoCall EXCEPT !.phase = "gum",
                                                !.conversation = conversation,
                                                !.status = status]]
  /\ UNCHANGED <<mounted, isRecording, isLoading, conversation, status,
                 mediaRecorderRef, audioChunksRef, mediaStreamRef, player>>
  /\ UNCHANGED svars

\* lines 46-71, 227-230 (and 232-249 when start() throws): getUserMedia
\* resolves with a stream
GumResolve ==
  \E k \in 1..MaxStarts, supported \in BOOLEAN, startThrows \in BOOLEAN :
    /\ calls[k].phase = "gum"
    /\ IF ~supported
         THEN /\ status' = SetState(status, S_NO_FORMAT)
              /\ calls' = [calls EXCEPT ![k] = Finished(NoCall)]
              /\ mediaStreamRef' = 0
              /\ UNCHANGED <<isRecording, mediaRecorderRef, audioChunksRef>>
       ELSE IF startThrows
         THEN /\ mediaRecorderRef' = k
              /\ audioChunksRef' = <<>>
              /\ status' = SetState(status,
                             ErrorStatus(MicErrorMessage("InvalidStateError")))
              /\ isRecording' = SetState(isRecording, FALSE)
              /\ calls' = [calls EXCEPT ![k] = Finished(NoCall)]
              /\ mediaStreamRef' = 0
       ELSE /\ mediaRecorderRef' = k
            /\ audioChunksRef' = <<>>
            /\ mediaStreamRef' = k
            /\ calls' = [calls EXCEPT ![k].phase = "recording", ![k].live = TRUE]
            /\ isRecording' = SetState(isRecording, TRUE)
            /\ status' = SetState(status, S_RECORDING)
    /\ UNCHANGED <<mounted, isLoading, conversation, starts, player>>
    /\ UNCHANGED svars

\* lines 232-249: getUserMedia rejects
GumReject ==
  \E k \in 1..MaxStarts, name \in MicErrorNames :
    /\ calls[k].phase = "gum"
    /\ status' = SetState(status, ErrorStatus(MicErrorMessage(name)))
    /\ isRecording' = SetState(isRecording, FALSE)
    /\ calls' = [StopTracks(calls, mediaStreamRef) EXCEPT ![k] = Finished(NoCall)]
    /\ mediaStreamRef' = 0
    /\ UNCHANGED <<mounted, isLoading, conversation, mediaRecorderRef,
                   audioChunksRef, starts, player>>
    /\ UNCHANGED svars

\* lines 252-260, 322-324: a click on Stop (enabled when isRecording and not
\* isLoading) runs stopRecording
ClickStop ==
  /\ mounted
  /\ isRecording /\ ~isLoading
  /\ IF mediaRecorderRef # 0 /\ calls[mediaRecorderRef].phase = "recording"
       THEN /\ calls' = [calls EXCEPT ![mediaRecorderRef].phase = "flushing"]
            /\ status' = S_STOPPING
       ELSE UNCHANGED <<calls, status>>
  /\ UNCHANGED <<mounted, isRecording, isLoading, conversation,
                 mediaRecorderRef, audioChunksRef, mediaStreamRef, starts,
                 player>>
  /\ UNCHANGED svars

\* lines 74-133: the events dataavailable and stop of recorder k, which the
\* browser fires in one task: ondataavailable with a blob of `size` bytes,
\* then onstop up to the fetch.  cs, stream and recording are calls,
\* mediaStreamRef and isRecording as the handlers before them left them.
Finalize(k, size, cs, stream, recording) ==
  LET chunks == IF size > 0
                  THEN Append(audioChunksRef, [recorder |-> k, size |-> size])
                  ELSE audioChunksRef
      released == StopTracks(cs, stream)
  IN
  /\ audioChunksRef' = chunks
  /\ mediaStreamRef' = 0
  /\ IF chunks = <<>>
       THEN /\ status' = SetState(status, S_NO_AUDIO)
            /\ isLoading' = SetState(isLoading, FALSE)
            /\ isRecording' = SetState(isRecording, FALSE)
            /\ calls' = [released EXCEPT ![k] = Finished(released[k])]
       ELSE /\ status' = SetState(status, S_PROCESSING)
            /\ isLoading' = SetState(isLoading, TRUE)
            /\ isRecording' = SetState(isRecording, recording)
            /\ calls' = [released EXCEPT
                           ![k].phase = "fetch",
                           ![k].bytes = size,
                           ![k].history = HistoryForApi(cs[k].conversation)]
  /\ UNCHANGED <<mounted, conversation, mediaRecorderRef, starts, player>>

\* the recorder stopped by stopRecording or by the cleanup fires its events
RecorderStopped ==
  \E k \in 1..MaxStarts, size \in {0, 1} :
    /\ calls[k].phase = "flushing"
    /\ Finalize(k, size, calls, mediaStreamRef, isRecording)
    /\ UNCHANGED svars

\* line 205: the test of the finally block, on the status of the closure
KeepsStatus(closureStatus) ==
  StartsWith(closureStatus, "Error") \/ Includes(closureStatus, "Replay")
    \/ Includes(closureStatus, "Playing")

\* lines 170-189: the status after a valid response, before the finally block
DeliveredStatus(data, plays) ==
  IF plays THEN S_RECEIVED
  ELSE IF Truthy(data.llmTextResponse) THEN S_TEXT_ONLY
  ELSE S_COMPLETE

\* a play() promise of onstop still pending when the source of the player is
\* replaced is rejected, and its catch (lines 177-181) sets the status
AutoPlayAborted == player.state = "loading" /\ player.auto

\* mutant: the finally block is skipped when the try block throws
FetchSettle_NoFinally ==
  \E k \in 1..MaxStarts, o \in FetchOutcomes :
    LET thrown == Thrown(o)
        plays == ~thrown.threw /\ Truthy(o.data.audioBase64) /\ mounted
        afterTry == IF thrown.threw THEN ErrorStatus(thrown.message)
                    ELSE DeliveredStatus(o.data, plays)
        afterFinally == IF KeepsStatus(calls[k].status) THEN afterTry ELSE S_READY
    IN
    /\ calls[k].phase = "fetch"
    /\ conversation' =
         SetState(conversation, AfterTurn(conversation, o))
    /\ player' = IF plays THEN [state |-> "loading", auto |-> TRUE] ELSE player
    /\ IF thrown.threw
         THEN /\ status' = SetState(status, afterTry)
              /\ UNCHANGED <<isLoading, isRecording, audioChunksRef>>
              /\ calls' = [StopTracks(calls, mediaStreamRef) EXCEPT
                             ![k] = [Finished(StopTracks(calls, mediaStreamRef)[k])
                                      EXCEPT !.outcome = o]]
              /\ mediaStreamRef' = 0
         ELSE /\ status' = SetState(status,
                             IF plays /\ AutoPlayAborted THEN S_REPLAY
                             ELSE afterFinally)
              /\ isLoading' = SetState(isLoading, FALSE)
              /\ isRecording' = SetState(isRecording, FALSE)
              /\ audioChunksRef' = <<>>
              /\ calls' = [calls EXCEPT
                             ![k] = [Finished(calls[k]) EXCEPT !.outcome = o]]
              /\ UNCHANGED mediaStreamRef
    /\ UNCHANGED <<mounted, mediaRecorderRef, starts>>
    /\ UNCHANGED svars

\* lines 134-210: the fetch of call k settles and onstop runs to its end
FetchSettle ==
  \E k \in 1..MaxStarts, o \in FetchOutcomes :
    LET thrown == Thrown(o)
        plays == ~thrown.threw /\ Truthy(o.data.audioBase64) /\ mounted
        afterTry == IF thrown.threw THEN ErrorStatus(thrown.message)
                    ELSE DeliveredStatus(o.data, plays)
        afterFinally == IF KeepsStatus(calls[k].status) THEN afterTry ELSE S_READY
    IN
    /\ calls[k].phase = "fetch"
    /\ conversation' =
         SetState(conversation, AfterTurn(conversation, o))
    /\ player' = IF plays THEN [state |-> "loading", auto |-> TRUE] ELSE player
    /\ status' = SetState(status,
                   IF plays /\ AutoPlayAborted THEN S_REPLAY ELSE afterFinally)
    /\ isLoading' = SetState(isLoading, FALSE)
    /\ isRecording' = SetState(isRecording, FALSE)
    /\ audioChunksRef' = <<>>
    /\ IF thrown.threw
         THEN /\ calls' = [StopTracks(calls, mediaStreamRef) EXCEPT
                             ![k] = [Finished(StopTracks(calls, mediaStreamRef)[k])
                                      EXCEPT !.outcome = o]]
              /\ mediaStreamRef' = 0
         ELSE /\ calls' = [calls EXCEPT
                             ![k] = [Finished(calls[k]) EXCEPT !.outcome = o]]
              /\ UNCHANGED mediaStreamRef
    /\ UNCHANGED <<mounted, mediaRecorderRef, starts>>
    /\ UNCHANGED svars

\* lines 174-176: playback starts
PlayResolve ==
  /\ player.state = "loading"
  /\ player' = [state |-> "playing", auto |-> FALSE]
  /\ status' = IF player.auto THEN SetState(status, S_PLAYING) ELSE status
  /\ UNCHANGED <<mounted, isRecording, isLoading, conversation,
                 mediaRecorderRef, audioChunksRef, mediaStreamRef, calls, starts>>
  /\ UNCHANGED svars

\* lines 177-181, 292: playback is refused
PlayReject ==
  /\ player.state = "loading"
  /\ player' = IdlePlayer
  /\ status' = IF player.auto THEN SetState(status, S_REPLAY) ELSE status
  /\ UNCHANGED <<mounted, isRecording, isLoading, conversation,
                 mediaRecorderRef, audioChunksRef, mediaStreamRef, calls, starts>>
  /\ UNCHANGED svars

\* the audio element plays to its end
PlayEnded ==
  /\ player.state = "playing"
  /\ player' = IdlePlayer
  /\ UNCHANGED <<mounted, isRecording, isLoading, conversation, status,
                 mediaRecorderRef, audioChunksRef, mediaStreamRef, calls, starts>>
  /\ UNCHANGED svars

\* mutant: the Replay Audio button is never disabled
ClickReplay_Ungated ==
  \E i \in 1..Len(conversation) :
    /\ mounted
    /\ conversation[i].role = "Assistant"
    /\ Truthy(conversation[i].audio)
    /\ player' = [state |-> "loading", auto |-> FALSE]
    /\ status' = IF AutoPlayAborted THEN S_REPLAY ELSE status
    /\ UNCHANGED <<mounted, isRecording, isLoading, conversation,
                   mediaRecorderRef, audioChunksRef, mediaStreamRef, calls,
                   starts>>
    /\ UNCHANGED svars

\* lines 288-296, 362-370: a click on Replay Audio of an assistant turn
\* with audio (enabled unless isLoading)
ClickReplay ==
  \E i \in 1..Len(conversation) :
    /\ mounted
    /\ ~isLoading
    /\ conversation[i].role = "Assistant"
    /\ Truthy(conversation[i].audio)
    /\ player' = [state |-> "loading", auto |-> FALSE]
    /\ status' = IF AutoPlayAborted THEN S_REPLAY ELSE status
    /\ UNCHANGED <<mounted, isRecording, isLoading, conversation,
                   mediaRecorderRef, audioChunksRef, mediaStreamRef, calls,
                   starts>>
    /\ UNCHANGED svars

\* lines 214-224: recorder k cannot go on recording; the browser fires error
\* (onerror releases the stream and resets isRecording and isLoading), then
\* dataavailable and stop, in one task
RecorderError ==
  \E k \in 1..MaxStarts, size \in {0, 1} :
    /\ calls[k].phase = "recording"
    /\ Finalize(k, size, StopTracks(calls, mediaStreamRef), 0, FALSE)
    /\ UNCHANGED svars

\* a recorder whose stream has no live track left stops: the browser fires
\* dataavailable and stop
TracksEnded ==
  \E k \in 1..MaxStarts, size \in {0, 1} :
    /\ calls[k].phase = "recording"
    /\ ~calls[k].live
    /\ Finalize(k, size, calls, mediaStreamRef, isRecording)
    /\ UNCHANGED svars

\* lines 263-285: the component unmounts and the cleanup of the effect runs
Unmount ==
  /\ mounted
  /\ mounted' = FALSE
  /\ calls' =
       LET stopped ==
             IF mediaRecorderRef # 0 /\ calls[mediaRecorderRef].phase = "recording"
               THEN [calls EXCEPT ![mediaRecorderRef].phase = "flushing"]
               ELSE calls
       IN  StopTracks(stopped, mediaStreamRef)
  /\ player' = IdlePlayer
  /\ mediaStreamRef' = 0
  /\ UNCHANGED <<isRecording, isLoading, conversation, status,
                 mediaRecorderRef, audioChunksRef, starts>>
  /\ UNCHANGED svars

ClientStep ==
  \/ ClickStart
  \/ GumResolve
  \/ GumReject
  \/ ClickStop
  \/ RecorderStopped
  \/ FetchSettle
  \/ PlayResolve
  \/ PlayReject
  \/ PlayEnded
  \/ ClickReplay
  \/ RecorderError
  \/ TracksEnded
  \/ Unmount

\* ------------------------------------------------------- specifications
\* one request through the orchestrator, for every request
InitServer ==
  /\ request \in Requests
  /\ ServerStart
  /\ ClientStart

NextServer == ServerStep

SpecServer == InitServer /\ [][NextServer]_vars

\* one session of the client, from an empty conversation
InitClient ==
  /\ request = [formOk |-> TRUE, audio |-> TRUE,
                history |-> [kind |-> "absent", val |-> <<>>]]
  /\ ServerStart
  /\ ClientStart

NextClient == ClientStep

SpecClient == InitClient /\ [][NextClient]_vars

\* the session of the client when every request sent is answered or fails:
\* fetch and response.json() settle (line 129, 142, 154)
SpecClientLive == SpecClient /\ WF_vars(FetchSettle)

\* A session that continues: earlier calls of startRecording, one after the
\* other and all finished, have left a conversation of up to MaxPriorTurns
\* turns, each a text-only reply or a network failure (after such a turn
\* the status is the ready prompt and nothing plays).  One call remains.
PriorOutcomes ==
  { NetworkError,
    Http(TRUE, <<"200">>, <<"OK">>, TRUE,
         Data(Str(<<"hi">>), Str(<<"ok">>), Null, Undefined, Undefined)) }

RECURSIVE PriorTranscripts(_)
PriorTranscripts(n) ==
  IF n = 0 THEN {<<>>}
  ELSE PriorTranscripts(n - 1)
         \cup { AfterTurn(c, o) : c \in PriorTranscripts(n - 1), o \in PriorOutcomes }

InitHistory ==
  /\ request = [formOk |-> TRUE, audio |-> TRUE,
                history |-> [kind |-> "absent", val |-> <<>>]]
  /\ ServerStart
  /\ mounted = TRUE
  /\ isRecording = FALSE
  /\ isLoading = FALSE
  /\ conversation \in PriorTranscripts(MaxPriorTurns) \ {<<>>}
  /\ status = S_READY
  /\ mediaRecorderRef = MaxStarts - 1
  /\ audioChunksRef = <<>>
  /\ mediaStreamRef = 0
  /\ calls = [k \in 1..MaxStarts |->
                IF k < MaxStarts THEN Finished(NoCall) ELSE NoCall]
  /\ starts = MaxStarts - 1
  /\ player = IdlePlayer

\* the steps of one call: no stream loses its tracks under a recorder
NextHistory ==
  \/ ClickStart
  \/ GumResolve
  \/ GumReject
  \/ ClickStop
  \/ RecorderStopped
  \/ FetchSettle
  \/ PlayResolve
  \/ PlayReject
  \/ PlayEnded
  \/ ClickReplay
  \/ RecorderError
  \/ Unmount

SpecHistory == InitHistory /\ [][NextHistory]_vars

\* the orchestrator and the client side by side
Init == InitServer

Next == ServerStep \/ ClientStep

Spec == Init /\ [][Next]_vars

\* ===================================================== claims: orchestrator
\* a text with no character other than white space (the empty text included)
BlankText(t) == \A i \in 1..Len(t) : t[i] \in {" ", "\n"}

Called == sttCalls > 0 \/ chatCalls # <<>> \/ ttsCalls # <<>>

SuccessShape ==
  /\ response.status = 200
  /\ DOMAIN response.body = {"userTranscript", "llmTextResponse", "audioBase64"}
  /\ response.body.userTranscript.t = "string"
  /\ response.body.llmTextResponse.t = "string"
  /\ response.body.audioBase64.t \in {"string", "null"}

\* C1: once the transcription step has produced a transcript that is empty,
\* white-space only or the failure sentinel, the chat completion is not
\* invoked in that request.
C1_NoChatOnBlankTranscript ==
  (sttResult # "none"
     /\ (BlankText(userTranscript)
           \/ userTranscript = <<"[Audio could not be transcribed]">>))
    => chatCalls = <<>>

C1_Witness ==
  /\ pc = "done"
  /\ sttResult = "ok"
  /\ userTranscript = <<" ", "\n">>
  /\ response.status = 200

\* C2: a success response carries audio only if a synthesis call succeeded
\* and the text given to that call is the llmTextResponse of the response.
C2_AudioMatchesText ==
  (response.status = 200 /\ response.body.audioBase64 # Null)
    => /\ ttsResult = "ok"
       /\ ttsCalls # <<>>
       /\ Str(ttsCalls[Len(ttsCalls)].input) = response.body.llmTextResponse

C2_Witness ==
  /\ response.status = 200
  /\ response.body.audioBase64 = Str(<<"bXAz">>)
  /\ sttResult = "threw"

\* C3: a request with an audio payload and a well-formed history (absent,
\* empty or a JSON array) is answered with status 200 and a complete result,
\* whatever the capabilities do.
C3_CapabilityFailuresAbsorbed ==
  (pc = "done" /\ request.formOk /\ request.audio
     /\ request.history.kind \in {"absent", "empty", "array"})
    => SuccessShape

C3_Witness ==
  /\ pc = "done"
  /\ request.history.kind = "array"
  /\ chatResult = "threw"
  /\ ttsResult = "threw"
  /\ response.status = 200

\* C4: when the chat completion throws, speech synthesis is attempted on the
\* apology and the response has status 200 with the apology as
\* llmTextResponse.
C4_ChatFailureApology ==
  chatResult = "threw"
    => /\ Len(ttsCalls) = 1
       /\ ttsCalls[1].input =
            <<"Sorry, I encountered an error while processing your request.">>
       /\ pc = "done" =>
            /\ response.status = 200
            /\ response.body.llmTextResponse =
                 Str(<<"Sorry, I encountered an error while processing your request.">>)

C4_Witness ==
  /\ pc = "done"
  /\ chatResult = "threw"
  /\ ~BlankText(userTranscript)
  /\ response.status = 200

\* C5 as stated: a request without an audio payload is answered with status
\* 400 and a body {error}, and no capability is invoked, whatever the history
\* field holds.
C5_Original ==
  (pc = "done" /\ request.formOk /\ ~request.audio)
    => /\ response.status = 400
       /\ DOMAIN response.body = {"error"}
       /\ ~Called

\* C5 amended: a request without an audio payload invokes no capability; it
\* is answered with status 400 and a body {error} when its history field is
\* absent, empty or valid JSON, and with status 500 and a body
\* {error, details} when its history field is malformed JSON.
C5_Amended ==
  (pc = "done" /\ request.formOk /\ ~request.audio)
    => /\ ~Called
       /\ IF request.history.kind = "malformed"
            THEN response.status = 500
                   /\ DOMAIN response.body = {"error", "details"}
            ELSE response.status = 400
                   /\ DOMAIN response.body = {"error"}

C5_Witness ==
  /\ pc = "done"
  /\ request.formOk
  /\ ~request.audio
  /\ request.history.kind = "array"
  /\ response.status = 400

\* C6: a request whose history field is malformed JSON is answered in one
\* step with status 500 and a body {error, details}; no capability is
\* invoked and the handler ends with a response.
C6_MalformedHistory ==
  (request.formOk /\ request.history.kind = "malformed")
    => /\ ~Called
       /\ pc \in {"start", "done"}
       /\ pc = "done" =>
            /\ response.status = 500
            /\ DOMAIN response.body = {"error", "details"}
            /\ response.body.error.t = "string"
            /\ response.body.details.t = "string"

C6_Witness ==
  /\ pc = "done"
  /\ request.formOk
  /\ request.audio
  /\ request.history.kind = "malformed"
  /\ response.status = 500

\* C7: within one request each capability is invoked at most once.
C7_AtMostOnce ==
  /\ sttCalls <= 1
  /\ Len(chatCalls) <= 1
  /\ Len(ttsCalls) <= 1

C7_Witness ==
  /\ pc = "done"
  /\ sttCalls = 1
  /\ Len(chatCalls) = 1
  /\ Len(ttsCalls) = 1
  /\ chatResult = "threw"
  /\ ttsResult = "threw"

\* C8: when the transcription throws, the response has status 200, the
\* sentinel as userTranscript and the "could not understand" clarification;
\* when it returns an empty or white-space-only transcript, the response has
\* the other, "did not catch that" clarification.
C8_ClarificationsNotSwapped ==
  /\ (pc = "done" /\ sttResult = "threw")
       => /\ response.status = 200
          /\ response.body.userTranscript =
               Str(<<"[Audio could not be transcribed]">>)
          /\ response.body.llmTextResponse =
               Str(<<"Sorry, I couldn't understand the audio. Please try again.">>)
  /\ (pc = "done" /\ sttResult = "ok" /\ BlankText(userTranscript))
       => /\ response.status = 200
          /\ response.body.llmTextResponse =
               Str(<<"Sorry, I didn't catch that. Could you please speak clearly?">>)

C8_Witness ==
  /\ pc = "done"
  /\ sttResult = "threw"
  /\ ttsResult = "ok"
  /\ response.status = 200

\* ========================================================= claims: client
\* C9 as stated: a recorder that delivers no bytes when it is finalized sends
\* no request and adds no turn; the step sets the "No audio detected" status
\* and resets isRecording and isLoading.
C9_EmptyCaptureNotSent ==
  [][\A k \in 1..MaxStarts :
       (/\ calls[k].phase \in {"recording", "flushing"}
        /\ calls'[k].phase \in {"fetch", "done"}
        /\ ~\E i \in 1..Len(audioChunksRef') : audioChunksRef'[i].recorder = k)
         => /\ calls'[k].phase = "done"
            /\ conversation' = conversation
            /\ mounted => /\ status' = S_NO_AUDIO
                          /\ ~isRecording'
                          /\ ~isLoading']_vars

\* C10: the history of every request sent has at most 8 entries, each with
\* the role user or assistant and each the role and text of a turn of the
\* conversation that is not an Error turn.
C10_HistoryBounded ==
  \A k \in 1..MaxStarts :
    calls[k].phase = "fetch"
      => /\ Len(calls[k].history) <= 8
         /\ \A i \in 1..Len(calls[k].history) :
              /\ calls[k].history[i].role \in {"user", "assistant"}
              /\ \E j \in 1..Len(conversation) :
                   /\ conversation[j].role # "Error"
                   /\ conversation[j].text = calls[k].history[i].content
                   /\ (conversation[j].role = "You")
                        = (calls[k].history[i].role = "user")

C10_Witness ==
  \E k \in 1..MaxStarts :
    /\ calls[k].phase = "fetch"
    /\ Len(calls[k].conversation) > 8
    /\ \E j \in (Len(calls[k].conversation) - 7)..Len(calls[k].conversation) :
         calls[k].conversation[j].role = "Error"
    /\ Len(calls[k].history) = 7

\* C11: a finalization that finds no audio leaves the mounted component with
\* isLoading and isRecording false at once, and a finalization that sends a
\* request is followed, once the request settles, by a state of the mounted
\* component with isLoading and isRecording false, whatever the outcome.
C11_ReturnsToIdle ==
  /\ [][\A k \in 1..MaxStarts :
          (/\ mounted
           /\ calls[k].phase \in {"recording", "flushing"}
           /\ calls'[k].phase = "done")
            => ~isLoading' /\ ~isRecording']_vars
  /\ (mounted /\ \E k \in 1..MaxStarts : calls[k].phase = "fetch")
       ~> (~mounted \/ (~isLoading /\ ~isRecording))

\* a request failed, its Error turn is in the conversation, and the
\* component is idle
C11_Witness ==
  /\ mounted
  /\ \E k \in 1..MaxStarts : calls[k].phase = "done"
  /\ conversation # <<>>
  /\ conversation[Len(conversation)].role = "Error"
  /\ ~isLoading /\ ~isRecording

\* ---------------------------------------------------------- activities
\* a recorder is capturing, a request is outstanding, reply audio plays
Capturing == \E k \in 1..MaxStarts : calls[k].phase \in {"recording", "flushing"}

Outstanding == {k \in 1..MaxStarts : calls[k].phase = "fetch"}

Submitting == Outstanding # {}

PlayingAudio == player.state = "playing"

\* C12: at most one request is outstanding at any time.
C12_SingleOutstanding == Cardinality(Outstanding) <= 1

\* C13 (as stated): no two of capture, submission and playback are active
\* at once.
C13_Original ==
  /\ ~(Capturing /\ Submitting)
  /\ ~(Capturing /\ PlayingAudio)
  /\ ~(Submitting /\ PlayingAudio)

\* C13 (amended): while isLoading is set on the mounted component no control
\* acts: no call of startRecording begins, no recorder is stopped by
\* stopRecording and no replay is started.
C13_Amended ==
  [][(mounted /\ mounted' /\ isLoading)
       => /\ starts' = starts
          /\ \A k \in 1..MaxStarts :
               ~(calls[k].phase = "recording" /\ calls'[k].phase = "flushing")
          /\ ~(player'.state = "loading" /\ ~player'.auto /\ player' # player)]_vars

\* a request is outstanding, isLoading is set and the conversation holds an
\* assistant turn whose Replay Audio button would start a replay
C13_Witness ==
  /\ mounted
  /\ isLoading
  /\ Submitting
  /\ player.state # "loading"
  /\ \E i \in 1..Len(conversation) :
       conversation[i].role = "Assistant" /\ Truthy(conversation[i].audio)

\* ------------------------------------------------------ the end of a turn
\* the step in which the request of call k settles and onstop ends
Settles(k) == calls[k].phase = "fetch" /\ calls'[k].phase = "done"

\* a network error, a non-success response, or a success response whose
\* userTranscript or llmTextResponse is not a string
Failed(o) ==
  \/ o.kind = "reject"
  \/ o.kind = "http" /\ ~o.ok
  \/ /\ o.kind = "http" /\ o.ok
     /\ (o.data.userTranscript.t # "string" \/ o.data.llmTextResponse.t # "string")

\* C14: when a submission fails, the conversation of the mounted component
\* grows by exactly one turn, an Error turn whose text carries the failure
\* message, and the turns it held before are unchanged and in their order.
C14_FailureAppendsErrorTurn ==
  [][\A k \in 1..MaxStarts :
       (mounted /\ Settles(k) /\ Failed(calls'[k].outcome))
         => /\ Len(conversation') = Len(conversation) + 1
            /\ SubSeq(conversation', 1, Len(conversation)) = conversation
            /\ LET e == conversation'[Len(conversation')] IN
                 /\ e.role = "Error"
                 /\ Len(e.text) > 1
                 /\ e.text = <<"Processing failed: ">>
                               \o Thrown(calls'[k].outcome).message]_vars

\* a failed submission after a successful one: the Error turn follows the
\* user and assistant turns
C14_Witness ==
  /\ mounted
  /\ Len(conversation) = 3
  /\ conversation[1].role = "You"
  /\ conversation[2].role = "Assistant"
  /\ conversation[3].role = "Error"
  /\ \E k \in 1..MaxStarts :
       calls[k].phase = "done" /\ Failed(calls[k].outcome)

\* C15: every step leaves the turns of the conversation in place and only
\* adds turns at its end; it adds turns only when a request settles; and a
\* valid success response adds exactly a user turn (the transcript, or
\* "(No transcription)" when it is empty) followed by an assistant turn
\* (llmTextResponse, audioBase64).
C15_AppendOnly ==
  [][/\ Len(conversation') >= Len(conversation)
     /\ SubSeq(conversation', 1, Len(conversation)) = conversation
     /\ conversation' # conversation => \E k \in 1..MaxStarts : Settles(k)
     /\ \A k \in 1..MaxStarts :
          (mounted /\ Settles(k) /\ ~Failed(calls'[k].outcome))
            => LET data == calls'[k].outcome.data IN
               conversation' = conversation \o
                 << [role |-> "You",
                     text |-> IF data.userTranscript.v = <<>>
                                THEN <<"(No transcription)">>
                                ELSE data.userTranscript.v,
                     audio |-> Undefined],
                    [role |-> "Assistant",
                     text |-> data.llmTextResponse.v,
                     audio |-> data.audioBase64] >>]_vars

\* a response with an empty transcript was received after an earlier turn
C15_Witness ==
  /\ mounted
  /\ Len(conversation) >= 3
  /\ \E i \in 2..(Len(conversation) - 1) :
       /\ conversation[i].role = "You"
       /\ conversation[i].text = <<"(No transcription)">>
       /\ conversation[i + 1].role = "Assistant"

\* C16: when the handling of a submission ends, the audio chunks are
\* cleared, isRecording and isLoading are false, and the status is the
\* error message if the submission failed and the ready prompt (or, when
\* automatic playback was refused, the replay hint) if it did not.
C16_FinishedHandling ==
  [][\A k \in 1..MaxStarts :
       (mounted /\ Settles(k))
         => /\ audioChunksRef' = <<>>
            /\ ~isRecording'
            /\ ~isLoading'
            /\ IF Failed(calls'[k].outcome)
                 THEN StartsWith(status', "Error")
                 ELSE status' \in {S_READY, S_REPLAY}]_vars

\* C17: a request whose chat completion returned and whose synthesis threw
\* is answered by a success response with the chat text as llmTextResponse
\* and audioBase64 null; and the mounted component, when a success response
\* with a non-empty text and no audio settles, adds no Error turn and has
\* the text-only status.
C17_TextOnlyDelivery ==
  /\ [](pc = "done" /\ chatResult = "ok" /\ ttsResult = "threw"
          => /\ response.status = 200
             /\ llmTextResponse # <<>>
             /\ response.body.llmTextResponse = Str(llmTextResponse)
             /\ response.body.audioBase64 = Null)
  /\ [][\A k \in 1..MaxStarts :
          (/\ mounted /\ Settles(k) /\ ~Failed(calls'[k].outcome)
           /\ calls'[k].outcome.data.llmTextResponse.v # <<>>
           /\ ~Truthy(calls'[k].outcome.data.audioBase64))
            => /\ Len(conversation') = Len(conversation) + 2
               /\ \A i \in (Len(conversation) + 1)..Len(conversation') :
                    conversation'[i].role # "Error"
               /\ status' = S_TEXT_ONLY]_vars

\* C18: while the request of a recording is outstanding, the stream of that
\* recording has been released and no capture stream at all is held.
C18_ReleasedBeforeRequest ==
  \A k \in 1..MaxStarts :
    calls[k].phase = "fetch" => \A j \in 1..MaxStarts : ~calls[j].live

\* C19: the stream a call of startRecording acquired is released once that
\* call has failed, once its recorder has been finalized (with or without a
\* request, settled or not), and once the component is unmounted.
C19_ReleasedOnEveryExit ==
  \A k \in 1..MaxStarts :
    (calls[k].phase \in {"fetch", "done"} \/ ~mounted) => ~calls[k].live

\* C20: the message list of every chat completion call is the system
\* instruction, then the entries of the history of the request, each as it
\* was sent and in the order sent, then one user message whose content is
\* the transcript.
C20_ChatMessages ==
  \A c \in 1..Len(chatCalls) :
    LET m == chatCalls[c]
        h == request.history.val
    IN  /\ Len(m) = Len(h) + 2
        /\ m[1] = [role |-> "system",
                   content |-> <<"You are a helpful and concise voice assistant. Respond clearly and naturally.">>]
        /\ \A j \in 1..Len(h) : m[j + 1] = h[j]
        /\ m[Len(m)] = [role |-> "user", content |-> userTranscript]

\* the chat completion was called for a request with a history of two
\* entries and a transcript with white space around it
C20_Witness ==
  /\ chatCalls # <<>>
  /\ Len(request.history.val) = 2
  /\ userTranscript = <<" ", "hello", " ">>

\* ------------------------------------------------------------ the voices
\* the two clarifications, the apology and the substitute for an empty reply
FixedMessages ==
  { <<"Sorry, I couldn't understand the audio. Please try again.">>,
    <<"Sorry, I didn't catch that. Could you please speak clearly?">>,
    <<"Sorry, I encountered an error while processing your request.">>,
    <<"Sorry, I could not generate a response at this moment.">> }

\* C21 (as stated): each of the four fixed messages is synthesized with the
\* voice of the clarifications, and the voice of the replies is used only
\* for the text a chat completion returned.
C21_Original ==
  \A c \in 1..Len(ttsCalls) :
    /\ ttsCalls[c].input \in FixedMessages => ttsCalls[c].voice = "alloy"
    /\ ttsCalls[c].voice = "nova"
         => chatResult = "ok" /\ ttsCalls[c].input \notin FixedMessages

\* C21 (amended): the voice follows the branch, not the kind of text.  A
\* synthesis call made without a chat completion call has the voice "alloy"
\* and one of the two clarifications as its text; a synthesis call made
\* after a chat completion call has the voice "nova", whether its text is
\* the reply, the apology (the chat completion threw) or the substitute for
\* an empty reply.
C21_Amended ==
  \A c \in 1..Len(ttsCalls) :
    IF chatCalls = <<>>
      THEN /\ ttsCalls[c].voice = "alloy"
           /\ ttsCalls[c].input \in
                { <<"Sorry, I couldn't understand the audio. Please try again.">>,
                  <<"Sorry, I didn't catch that. Could you please speak clearly?">> }
      ELSE /\ ttsCalls[c].voice = "nova"
           /\ ttsCalls[c].input = llmTextResponse
           /\ chatResult = "threw"
                => ttsCalls[c].input =
                     <<"Sorry, I encountered an error while processing your request.">>

\* the apology for a chat completion that threw was given to the synthesis
C21_Witness ==
  /\ chatResult = "threw"
  /\ Len(ttsCalls) = 1
  /\ ttsCalls[1].voice = "nova"
  /\ ttsCalls[1].input =
       <<"Sorry, I encountered an error while processing your request.">>

\* ------------------------------------------------- the synthesis is tried
\* the request has a form, an audio file and a history field that
\* JSON.parse accepts (or none)
PassesValidation ==
  request.formOk /\ request.audio /\ request.history.kind # "malformed"

\* C22 (as stated): the llmTextResponse of every success response is a
\* non-empty string, and every request that passes the validation of its
\* input ends with exactly one synthesis call.
C22_Original ==
  pc = "done"
    => /\ response.status = 200
          => /\ response.body.llmTextResponse.t = "string"
             /\ response.body.llmTextResponse.v # <<>>
       /\ PassesValidation => Len(ttsCalls) = 1

\* C22 (amended): the llmTextResponse of every success response is a
\* non-empty string and exactly one synthesis call, on that text, was made
\* for it (the branch that skips the synthesis is not taken); a request with
\* audio whose history is absent, empty or a JSON array ends in a success
\* response; a request with audio whose history is valid JSON but cannot be
\* spread ends in a success response with one synthesis call when the
\* transcript needs a clarification, and otherwise in a 500 response with no
\* synthesis call.
C22_Amended ==
  pc = "done"
    => /\ response.status = 200
          => /\ response.body.llmTextResponse.t = "string"
             /\ response.body.llmTextResponse.v # <<>>
             /\ Len(ttsCalls) = 1
             /\ ttsCalls[1].input = response.body.llmTextResponse.v
       /\ (request.formOk /\ request.audio
             /\ request.history.kind \in {"absent", "empty", "array"})
            => response.status = 200
       /\ (request.formOk /\ request.audio
             /\ request.history.kind = "nonIterable")
            => IF BlankText(userTranscript)
                    \/ userTranscript = <<"[Audio could not be transcribed]">>
                 THEN response.status = 200
                 ELSE response.status = 500 /\ ttsCalls = <<>>

\* the chat completion returned no content, and the substitute was
\* synthesized and returned
C22_Witness ==
  /\ pc = "done"
  /\ response.status = 200
  /\ chatResult = "ok"
  /\ Len(ttsCalls) = 1
  /\ response.body.llmTextResponse.v =
       <<"Sorry, I could not generate a response at this moment.">>

\* C23: a response that carries the failure sentinel as its transcript and
\* the "could not understand" clarification as its text is given only when
\* the transcription threw; and once the transcription has returned a
\* transcript with a character that is not white space, the chat completion
\* has been called with that transcript as its last message.
C23_SentinelOnlyOnFailure ==
  /\ (/\ pc = "done"
      /\ response.status = 200
      /\ response.body.userTranscript = Str(<<"[Audio could not be transcribed]">>)
      /\ response.body.llmTextResponse =
           Str(<<"Sorry, I couldn't understand the audio. Please try again.">>))
       => sttResult = "threw"
  /\ (sttResult = "ok" /\ ~BlankText(userTranscript))
       => /\ Len(chatCalls) = 1
          /\ chatCalls[1][Len(chatCalls[1])] =
               [role |-> "user", content |-> userTranscript]

\* C24: the history of the request a finalized recording sends is the one
\* computed from the conversation as it is at that moment.
C24_HistoryFromCurrentTranscript ==
  [][\A k \in 1..MaxStarts :
       (calls[k].phase \in {"recording", "flushing"} /\ calls'[k].phase = "fetch")
         => calls'[k].history = HistoryForApi(conversation)]_vars

====
